---- MODULE Spec2Model ----
(***************************************************************************)
(* Institution schema module of the Plaid client (src/types/institution.rs) *)
(* as a state machine: a caller decodes a ListInstitutionsResponse or a     *)
(* GetInstitutionResponse from a wire payload and reads it through the      *)
(* accessors, encodes the `options` of a GetInstitutionRequest through      *)
(* serialize_options, or encodes an Institution and decodes it back.        *)
(*                                                                          *)
(* A JSON object on the wire is a record of slots, one per key the decoder  *)
(* looks at.  A slot is what serde distinguishes about a key: the key is    *)
(* absent, holds null, holds a value of the wrong JSON type ("bad"), or     *)
(* holds a value of the type the field expects ("ok", with the value).      *)
(***************************************************************************)
EXTENDS Integers, Sequences, FiniteSets, TLC

VARIABLES
    task,       \* what the caller is doing: "list", "get", "encode", "roundtrip"
    wire,       \* the response payload received (decode tasks)
    resp,       \* the caller's Result of the decode
    instCopy,   \* the Institution returned by GetInstitutionResponse::institution
    held,       \* the values returned by the other accessors, as the caller holds them
    x,          \* GetInstitutionRequest.options
    pc,         \* position inside serialize_options
    fallible,   \* whether the Serializer S writes to a sink that can fail
    declared,   \* the length given to serialize_map
    calls,      \* the entries handed to serialize_entry, in order
    written,    \* the entries the serializer accepted: the wire `options` map
    discarded,  \* the serialize_entry errors dropped by `let _ =`
    result,     \* the Result serialize_options returns
    inst,       \* the Institution of the round trip
    encoded,    \* its wire form
    decoded     \* the Result of decoding `encoded`

vars == <<task, wire, resp, instCopy, held, x, pc, fallible, declared, calls,
          written, discarded, result, inst, encoded, decoded>>

(***************************************************************************)
(* Bounds of the model.                                                     *)
(***************************************************************************)
\* at most this many keys of a nested Institution object are absent, null or ill-typed
MaxDefects == 3
\* at most this many elements in the `institutions` array of a payload
MaxInstitutions == 2
\* at most this many elements in `options`
MaxOptions == 3

(***************************************************************************)
(* Option<T> and Result<T, E>.                                              *)
(***************************************************************************)
None == [some |-> FALSE, v |-> ""]
Some(s) == [some |-> TRUE, v |-> s]

Ok(v) == [tag |-> "Ok", value |-> v]
Err(ty, fld, why) == [tag |-> "Err", ty |-> ty, field |-> fld, why |-> why]
Pending == [tag |-> "Pending"]

(***************************************************************************)
(* Wire slots.                                                              *)
(***************************************************************************)
Kinds == {"ok", "absent", "null", "bad"}

Present(v) == [k |-> "ok", v |-> v]

\* the fields of struct Institution, in declaration order
InstitutionFields ==
    <<"institution_id", "name", "products", "country_codes", "url",
      "primary_color", "logo", "routing_numbers", "oauth">>

OptionalFields == {"url", "primary_color", "logo"}

MandatoryFields ==
    {InstitutionFields[i] : i \in 1..Len(InstitutionFields)} \ OptionalFields

\* the placeholder a slot carries when its key holds no well-typed value
Blank(fld) ==
    CASE fld \in {"products", "country_codes", "routing_numbers"} -> <<>>
      [] fld = "oauth" -> FALSE
      [] OTHER -> ""

Slot(fld, kind, v) == [k |-> kind, v |-> IF kind = "ok" THEN v ELSE Blank(fld)]

(***************************************************************************)
(* Deserialize, as #[derive(Deserialize)] generates it.                     *)
(***************************************************************************)
\* best effort: a key that is missing or ill-typed gives the type's default
DeserializeRequired_lenient(slot, ty, fld) ==
    IF slot.k = "ok" THEN Ok(slot.v) ELSE Ok(Blank(fld))

\* a field of type String, Vec<String>, Vec<CountryCode> or bool: the key must be
\* there and hold a value of the field's type
DeserializeRequired(slot, ty, fld) ==
    CASE slot.k = "ok" -> Ok(slot.v)
      [] slot.k = "absent" -> Err(ty, fld, "missing field")
      [] OTHER -> Err(ty, fld, "invalid type")

\* Option<String> read as if a missing key were an error
DeserializeOption_strict(slot, ty, fld) ==
    CASE slot.k = "ok" -> Ok(Some(slot.v))
      [] slot.k = "null" -> Ok(None)
      [] slot.k = "absent" -> Err(ty, fld, "missing field")
      [] OTHER -> Err(ty, fld, "invalid type")

\* a field of type Option<String>: null and a missing key both give None
DeserializeOption(slot, ty, fld) ==
    CASE slot.k = "ok" -> Ok(Some(slot.v))
      [] slot.k \in {"null", "absent"} -> Ok(None)
      [] OTHER -> Err(ty, fld, "invalid type")

\* the first error serde reports for a struct, given the result of each field
\* in declaration order: an ill-typed value is met while the keys are visited,
\* a missing key only after the last key was visited
FirstErr(rs) ==
    LET illTyped == {i \in 1..Len(rs) : rs[i].tag = "Err" /\ rs[i].why = "invalid type"}
        errs == {i \in 1..Len(rs) : rs[i].tag = "Err"}
        pick(S) == CHOOSE i \in S : \A j \in S : i <= j
    IN  rs[IF illTyped # {} THEN pick(illTyped) ELSE pick(errs)]

HasErr(rs) == \E i \in 1..Len(rs) : rs[i].tag = "Err"

DeserializeInstitution(obj) ==
    LET r(fld) == IF fld \in OptionalFields
                  THEN DeserializeOption(obj[fld], "Institution", fld)
                  ELSE DeserializeRequired(obj[fld], "Institution", fld)
        rs == [i \in 1..Len(InstitutionFields) |-> r(InstitutionFields[i])]
    IN  IF HasErr(rs)
        THEN FirstErr(rs)
        ELSE Ok([institution_id  |-> r("institution_id").value,
                 name            |-> r("name").value,
                 products        |-> r("products").value,
                 country_codes   |-> r("country_codes").value,
                 url             |-> r("url").value,
                 primary_color   |-> r("primary_color").value,
                 logo            |-> r("logo").value,
                 routing_numbers |-> r("routing_numbers").value,
                 oauth           |-> r("oauth").value])

\* a field of type Institution: the key must be there and hold an object that
\* decodes as an Institution
DeserializeInstitutionField(slot, ty, fld) ==
    CASE slot.k = "ok" -> DeserializeInstitution(slot.v)
      [] slot.k = "absent" -> Err(ty, fld, "missing field")
      [] OTHER -> Err(ty, fld, "invalid type")

\* Vec<Institution>: every element must decode
DeserializeInstitutionSeq(slot, ty, fld) ==
    CASE slot.k = "ok" ->
            LET r(i) == DeserializeInstitution(slot.v[i])
                bad == {i \in 1..Len(slot.v) : r(i).tag = "Err"}
            IN  IF bad # {}
                THEN r(CHOOSE i \in bad : \A j \in bad : i <= j)
                ELSE Ok([i \in 1..Len(slot.v) |-> r(i).value])
      [] slot.k = "absent" -> Err(ty, fld, "missing field")
      [] OTHER -> Err(ty, fld, "invalid type")

\* `institutions` without #[serde(default)]
DeserializeInstitutions_nodefault(slot) ==
    DeserializeInstitutionSeq(slot, "ListInstitutionsResponse", "institutions")

\* ListInstitutionsResponse.institutions carries #[serde(default)]: a missing key
\* gives Vec::default()
DeserializeInstitutions(slot) ==
    IF slot.k = "absent"
    THEN Ok(<<>>)
    ELSE DeserializeInstitutionSeq(slot, "ListInstitutionsResponse", "institutions")

\* `request_id` with #[serde(default)]
DeserializeRequestId_default(slot, ty) ==
    IF slot.k = "absent" THEN Ok("") ELSE DeserializeRequired(slot, ty, "request_id")

\* request_id: String, in both responses
DeserializeRequestId(slot, ty) == DeserializeRequired(slot, ty, "request_id")

ListInstitutionsResponseFields == <<"institutions", "request_id">>

DeserializeListInstitutionsResponse(w) ==
    LET r(fld) == IF fld = "institutions"
                  THEN DeserializeInstitutions(w.institutions)
                  ELSE DeserializeRequestId(w.request_id, "ListInstitutionsResponse")
        rs == [i \in 1..Len(ListInstitutionsResponseFields) |-> r(ListInstitutionsResponseFields[i])]
    IN  IF HasErr(rs)
        THEN FirstErr(rs)
        ELSE Ok([institutions |-> r("institutions").value,
                 request_id   |-> r("request_id").value])

GetInstitutionResponseFields == <<"institution", "request_id">>

DeserializeGetInstitutionResponse(w) ==
    LET r(fld) == IF fld = "institution"
                  THEN DeserializeInstitutionField(w.institution,
                                                   "GetInstitutionResponse", "institution")
                  ELSE DeserializeRequestId(w.request_id, "GetInstitutionResponse")
        rs == [i \in 1..Len(GetInstitutionResponseFields) |-> r(GetInstitutionResponseFields[i])]
    IN  IF HasErr(rs)
        THEN FirstErr(rs)
        ELSE Ok([institution |-> r("institution").value,
                 request_id  |-> r("request_id").value])
(***************************************************************************)
(* Serialize, as #[derive(Serialize)] generates it for Institution: every   *)
(* field is written, None as null.                                          *)
(***************************************************************************)
SerializeOption(o) == IF o.some THEN Present(o.v) ELSE [k |-> "null", v |-> ""]

\* `name` written under another key than the one Deserialize reads
SerializeInstitution_renamed(v) ==
    [institution_id  |-> Present(v.institution_id),
     name            |-> [k |-> "absent", v |-> ""],
     products        |-> Present(v.products),
     country_codes   |-> Present(v.country_codes),
     url             |-> SerializeOption(v.url),
     primary_color   |-> SerializeOption(v.primary_color),
     logo            |-> SerializeOption(v.logo),
     routing_numbers |-> Present(v.routing_numbers),
     oauth           |-> Present(v.oauth)]

SerializeInstitution(v) ==
    [institution_id  |-> Present(v.institution_id),
     name            |-> Present(v.name),
     products        |-> Present(v.products),
     country_codes   |-> Present(v.country_codes),
     url             |-> SerializeOption(v.url),
     primary_color   |-> SerializeOption(v.primary_color),
     logo            |-> SerializeOption(v.logo),
     routing_numbers |-> Present(v.routing_numbers),
     oauth           |-> Present(v.oauth)]

(***************************************************************************)
(* The inputs: Institution values, and the payloads a server can send.      *)
(***************************************************************************)
InstitutionIds == <<"ins_1", "ins_2", "ins_3", "ins_4">>
NameOf(id) == IF id = "ins_1" THEN "Bank A" ELSE "Bank B"
RequestIds == {"req_1", "req_2"}
OptStrings(s) == {None, Some(s)}

Institutions ==
    [institution_id  : {"ins_1", "ins_2"},
     name            : {"Bank A"},
     products        : {<<>>, <<"auth", "balance">>, <<"balance", "auth">>},
     country_codes   : {<<"US">>, <<"GB", "US">>},
     url             : OptStrings("https://bank-a.example"),
     primary_color   : OptStrings("#0a7cff"),
     logo            : OptStrings("iVBORw0KGgo="),
     routing_numbers : {<<>>, <<"021000021", "011401533">>},
     oauth           : BOOLEAN]

\* the payload object of an institution with every key present and well-typed
WellFormedObject(id) ==
    [institution_id  |-> Present(id),
     name            |-> Present(NameOf(id)),
     products        |-> Present(<<"auth">>),
     country_codes   |-> Present(<<"US">>),
     url             |-> Present("https://bank-a.example"),
     primary_color   |-> Present("#0a7cff"),
     logo            |-> Present("iVBORw0KGgo="),
     routing_numbers |-> Present(<<"021000021">>),
     oauth           |-> Present(FALSE)]

FieldNames == {InstitutionFields[i] : i \in 1..Len(InstitutionFields)}

\* which keys of an object are absent, null or ill-typed: at most n of them
RECURSIVE ShapesUpTo(_)
ShapesUpTo(n) ==
    IF n = 0
    THEN {[fld \in FieldNames |-> "ok"]}
    ELSE LET less == ShapesUpTo(n - 1)
         IN  less \cup {[sh EXCEPT ![fld] = kind] :
                            sh \in less, fld \in FieldNames, kind \in Kinds}

Shaped(obj, shape) ==
    [institution_id  |-> Slot("institution_id", shape["institution_id"], obj.institution_id.v),
     name            |-> Slot("name", shape["name"], obj.name.v),
     products        |-> Slot("products", shape["products"], obj.products.v),
     country_codes   |-> Slot("country_codes", shape["country_codes"], obj.country_codes.v),
     url             |-> Slot("url", shape["url"], obj.url.v),
     primary_color   |-> Slot("primary_color", shape["primary_color"], obj.primary_color.v),
     logo            |-> Slot("logo", shape["logo"], obj.logo.v),
     routing_numbers |-> Slot("routing_numbers", shape["routing_numbers"], obj.routing_numbers.v),
     oauth           |-> Slot("oauth", shape["oauth"], obj.oauth.v)]

\* the objects of a get payload: up to MaxDefects defective keys
GetObjects ==
    {Shaped(WellFormedObject(id), sh) : id \in {"ins_1", "ins_2"}, sh \in ShapesUpTo(MaxDefects)}

\* the arrays of a list payload: up to MaxInstitutions objects, at most one of
\* them (the j-th) with one defective key
ArrayWith(n, j, sh) ==
    [i \in 1..n |-> IF i = j
                    THEN Shaped(WellFormedObject(InstitutionIds[i]), sh)
                    ELSE WellFormedObject(InstitutionIds[i])]

ListArrays ==
    {ArrayWith(n, j, sh) : n \in 0..MaxInstitutions, j \in 1..MaxInstitutions,
                           sh \in ShapesUpTo(1)}

RequestIdSlots == {Slot("request_id", k, r) : k \in Kinds, r \in RequestIds}

\* the slot of a key that holds an object or an array: its value is kept only
\* when the key holds one
InstitutionSlots ==
    {Present(o) : o \in GetObjects}
        \cup {[k |-> kind, v |-> Shaped(WellFormedObject("ins_1"), [fld \in FieldNames |-> "absent"])] :
                kind \in Kinds \ {"ok"}}

InstitutionsSlots ==
    {Present(a) : a \in ListArrays} \cup {[k |-> kind, v |-> <<>>] : kind \in Kinds \ {"ok"}}
(***************************************************************************)
(* InstitutionOption and its wire names: #[serde(rename_all = "snake_case")] *)
(* puts a '_' before every upper-case letter but the first and lowers it.   *)
(***************************************************************************)
InstitutionOption == {"IncludeOptionalMetadata", "IncludeStatus"}

VariantName(option) ==
    IF option = "IncludeOptionalMetadata"
    THEN <<"I", "n", "c", "l", "u", "d", "e", "O", "p", "t", "i", "o", "n", "a", "l",
           "M", "e", "t", "a", "d", "a", "t", "a">>
    ELSE <<"I", "n", "c", "l", "u", "d", "e", "S", "t", "a", "t", "u", "s">>

IsUppercase(ch) == ch \in {"I", "O", "M", "S"}

ToAsciiLowercase(ch) ==
    CASE ch = "I" -> "i"
      [] ch = "O" -> "o"
      [] ch = "M" -> "m"
      [] ch = "S" -> "s"
      [] OTHER -> ch

RECURSIVE SnakeCase(_, _)
SnakeCase(variant, i) ==
    IF i > Len(variant)
    THEN <<>>
    ELSE (IF i > 1 /\ IsUppercase(variant[i]) THEN <<"_">> ELSE <<>>)
            \o <<ToAsciiLowercase(variant[i])>> \o SnakeCase(variant, i + 1)

\* the enum's default encoding: the variant's name as written
WireName_unrenamed(option) == VariantName(option)

WireName(option) == SnakeCase(VariantName(option), 1)

\* map.serialize_entry(option, &true)
Entry(option) == <<WireName(option), TRUE>>

OptionSeqs == UNION {[1..n -> InstitutionOption] : n \in 0..MaxOptions}

(***************************************************************************)
(* Accessors: each takes &self and returns a clone.  An accessor is the     *)
(* pair of what it returns and what the receiver is afterwards.             *)
(***************************************************************************)
GetInstitutionResponse_institution(self) == [ret |-> self.institution, self |-> self]

GetInstitutionResponse_request_id(self) == [ret |-> self.request_id, self |-> self]

\* id() reading the neighbouring field
Institution_id_name(self) == [ret |-> self.name, self |-> self]

Institution_id(self) == [ret |-> self.institution_id, self |-> self]

Institution_name(self) == [ret |-> self.name, self |-> self]

\* Option::take in place of clone: the receiver is left with None
Institution_logo_take(self) == [ret |-> self.logo, self |-> [self EXCEPT !.logo = None]]

Institution_logo(self) == [ret |-> self.logo, self |-> self]

Institution_url(self) == [ret |-> self.url, self |-> self]

Accessors == {"request_id", "id", "name", "logo", "url"}

Unset(a) == [st |-> "unset", v |-> IF a \in {"logo", "url"} THEN None ELSE ""]

\* what a caller can do to a value it owns
Mutated(a, v) == IF a \in {"logo", "url"} THEN Some("<overwritten>") ELSE "<overwritten>"

(***************************************************************************)
(* The state machine.                                                       *)
(***************************************************************************)
NoWire == [kind |-> "none"]
NoCopy == [some |-> FALSE]
NoInst == [tag |-> "None"]

InitList ==
    /\ task = "list"
    /\ \E is \in InstitutionsSlots, r \in RequestIdSlots, e \in BOOLEAN :
           wire = [kind |-> "list", institutions |-> is, request_id |-> r, extra |-> e]
    /\ resp = Pending /\ instCopy = NoCopy
    /\ held = [a \in Accessors |-> Unset(a)]
    /\ x = <<>> /\ pc = "idle" /\ fallible = FALSE /\ declared = 0
    /\ calls = <<>> /\ written = <<>> /\ discarded = 0 /\ result = Pending
    /\ inst = NoInst /\ encoded = NoInst /\ decoded = Pending

InitGet ==
    /\ task = "get"
    /\ \E i \in InstitutionSlots, r \in RequestIdSlots, e \in BOOLEAN :
           wire = [kind |-> "get", institution |-> i, request_id |-> r, extra |-> e]
    /\ resp = Pending /\ instCopy = NoCopy
    /\ held = [a \in Accessors |-> Unset(a)]
    /\ x = <<>> /\ pc = "idle" /\ fallible = FALSE /\ declared = 0
    /\ calls = <<>> /\ written = <<>> /\ discarded = 0 /\ result = Pending
    /\ inst = NoInst /\ encoded = NoInst /\ decoded = Pending

InitEncode ==
    /\ task = "encode"
    /\ x \in OptionSeqs
    /\ fallible \in BOOLEAN
    /\ pc = "serialize_map"
    /\ wire = NoWire /\ resp = Pending /\ instCopy = NoCopy
    /\ held = [a \in Accessors |-> Unset(a)]
    /\ declared = 0 /\ calls = <<>> /\ written = <<>> /\ discarded = 0 /\ result = Pending
    /\ inst = NoInst /\ encoded = NoInst /\ decoded = Pending

InitRoundTrip ==
    /\ task = "roundtrip"
    /\ inst \in Institutions
    /\ encoded = NoInst /\ decoded = Pending
    /\ wire = NoWire /\ resp = Pending /\ instCopy = NoCopy
    /\ held = [a \in Accessors |-> Unset(a)]
    /\ x = <<>> /\ pc = "idle" /\ fallible = FALSE /\ declared = 0
    /\ calls = <<>> /\ written = <<>> /\ discarded = 0 /\ result = Pending

Init == InitList \/ InitGet \/ InitEncode \/ InitRoundTrip

encodeVars == <<x, pc, fallible, declared, calls, written, discarded, result>>
decodeVars == <<wire, resp, instCopy, held>>
tripVars == <<inst, encoded, decoded>>

\* serde_json::from_*::<ListInstitutionsResponse>
DecodeList ==
    /\ task = "list" /\ resp.tag = "Pending"
    /\ resp' = DeserializeListInstitutionsResponse(wire)
    /\ UNCHANGED <<task, wire, instCopy, held, encodeVars, tripVars>>

\* serde_json::from_*::<GetInstitutionResponse>
DecodeGet ==
    /\ task = "get" /\ resp.tag = "Pending"
    /\ resp' = DeserializeGetInstitutionResponse(wire)
    /\ UNCHANGED <<task, wire, instCopy, held, encodeVars, tripVars>>
\* r.institution()
Call_institution ==
    /\ task = "get" /\ resp.tag = "Ok"
    /\ LET r == GetInstitutionResponse_institution(resp.value)
       IN  /\ instCopy' = [some |-> TRUE, v |-> r.ret]
           /\ resp' = Ok(r.self)
    /\ UNCHANGED <<task, wire, held, encodeVars, tripVars>>

\* r.request_id()
Call_request_id ==
    /\ task = "get" /\ resp.tag = "Ok"
    /\ LET r == GetInstitutionResponse_request_id(resp.value)
       IN  /\ held' = [held EXCEPT !["request_id"] = [st |-> "fresh", v |-> r.ret]]
           /\ resp' = Ok(r.self)
    /\ UNCHANGED <<task, wire, instCopy, encodeVars, tripVars>>

\* i.id(), on the Institution the caller got from r.institution()
Call_id ==
    /\ instCopy.some
    /\ LET r == Institution_id(instCopy.v)
       IN  /\ held' = [held EXCEPT !["id"] = [st |-> "fresh", v |-> r.ret]]
           /\ instCopy' = [instCopy EXCEPT !.v = r.self]
    /\ UNCHANGED <<task, wire, resp, encodeVars, tripVars>>

\* i.name()
Call_name ==
    /\ instCopy.some
    /\ LET r == Institution_name(instCopy.v)
       IN  /\ held' = [held EXCEPT !["name"] = [st |-> "fresh", v |-> r.ret]]
           /\ instCopy' = [instCopy EXCEPT !.v = r.self]
    /\ UNCHANGED <<task, wire, resp, encodeVars, tripVars>>

\* i.logo()
Call_logo ==
    /\ instCopy.some
    /\ LET r == Institution_logo(instCopy.v)
       IN  /\ held' = [held EXCEPT !["logo"] = [st |-> "fresh", v |-> r.ret]]
           /\ instCopy' = [instCopy EXCEPT !.v = r.self]
    /\ UNCHANGED <<task, wire, resp, encodeVars, tripVars>>

\* i.url()
Call_url ==
    /\ instCopy.some
    /\ LET r == Institution_url(instCopy.v)
       IN  /\ held' = [held EXCEPT !["url"] = [st |-> "fresh", v |-> r.ret]]
           /\ instCopy' = [instCopy EXCEPT !.v = r.self]
    /\ UNCHANGED <<task, wire, resp, encodeVars, tripVars>>

\* the caller changes a value an accessor returned to it
MutateReturned ==
    /\ \E a \in Accessors :
           /\ held[a].st = "fresh"
           /\ held' = [held EXCEPT ![a] = [st |-> "mutated", v |-> Mutated(a, held[a].v)]]
    /\ UNCHANGED <<task, wire, resp, instCopy, encodeVars, tripVars>>

(***************************************************************************)
(* serialize_options(x, s), one step per call on the serializer.  A call on *)
(* a fallible serializer may return Err.                                    *)
(***************************************************************************)
\* let mut map = s.serialize_map(Some(x.len()))?;   returning Ok
SerializeMapOk ==
    /\ task = "encode" /\ pc = "serialize_map"
    /\ declared' = Len(x)
    /\ pc' = "for"
    /\ UNCHANGED <<task, x, fallible, calls, written, discarded, result, decodeVars, tripVars>>

\* the same call returning Err: `?` returns it
SerializeMapErr ==
    /\ task = "encode" /\ pc = "serialize_map" /\ fallible
    /\ result' = [tag |-> "Err", at |-> "serialize_map"]
    /\ pc' = "return"
    /\ UNCHANGED <<task, x, fallible, declared, calls, written, discarded, decodeVars, tripVars>>

\* an entry whose key was written before is skipped
SerializeEntryOk_dedup ==
    /\ task = "encode" /\ pc = "for" /\ Len(calls) < Len(x)
    /\ LET option == x[Len(calls) + 1]
       IN  /\ calls' = Append(calls, Entry(option))
           /\ written' = IF \E i \in 1..Len(written) : written[i][1] = WireName(option)
                         THEN written
                         ELSE Append(written, Entry(option))
    /\ UNCHANGED <<task, x, pc, fallible, declared, discarded, result, decodeVars, tripVars>>

\* let _ = map.serialize_entry(option, &true);   returning Ok
SerializeEntryOk ==
    /\ task = "encode" /\ pc = "for" /\ Len(calls) < Len(x)
    /\ LET option == x[Len(calls) + 1]
       IN  /\ calls' = Append(calls, Entry(option))
           /\ written' = Append(written, Entry(option))
    /\ UNCHANGED <<task, x, pc, fallible, declared, discarded, result, decodeVars, tripVars>>

\* the entry's error returned with `?`
SerializeEntryErr_propagated ==
    /\ task = "encode" /\ pc = "for" /\ Len(calls) < Len(x) /\ fallible
    /\ calls' = Append(calls, Entry(x[Len(calls) + 1]))
    /\ result' = [tag |-> "Err", at |-> "serialize_entry"]
    /\ pc' = "return"
    /\ UNCHANGED <<task, x, fallible, declared, written, discarded, decodeVars, tripVars>>

\* the same call returning Err: `let _ =` drops it and the loop goes on
SerializeEntryErr ==
    /\ task = "encode" /\ pc = "for" /\ Len(calls) < Len(x) /\ fallible
    /\ calls' = Append(calls, Entry(x[Len(calls) + 1]))
    /\ discarded' = discarded + 1
    /\ UNCHANGED <<task, x, pc, fallible, declared, written, result, decodeVars, tripVars>>

\* map.end()   returning Ok
EndOk ==
    /\ task = "encode" /\ pc = "for" /\ Len(calls) = Len(x)
    /\ result' = [tag |-> "Ok", at |-> "end"]
    /\ pc' = "return"
    /\ UNCHANGED <<task, x, fallible, declared, calls, written, discarded, decodeVars, tripVars>>

\* map.end()   returning Err
EndErr ==
    /\ task = "encode" /\ pc = "for" /\ Len(calls) = Len(x) /\ fallible
    /\ result' = [tag |-> "Err", at |-> "end"]
    /\ pc' = "return"
    /\ UNCHANGED <<task, x, fallible, declared, calls, written, discarded, decodeVars, tripVars>>

(***************************************************************************)
(* Encoding an Institution and decoding the result.                         *)
(***************************************************************************)
EncodeInstitution ==
    /\ task = "roundtrip" /\ encoded.tag = "None"
    /\ encoded' = [tag |-> "Some", obj |-> SerializeInstitution(inst)]
    /\ UNCHANGED <<task, inst, decoded, decodeVars, encodeVars>>

DecodeInstitution ==
    /\ task = "roundtrip" /\ encoded.tag = "Some" /\ decoded.tag = "Pending"
    /\ decoded' = DeserializeInstitution(encoded.obj)
    /\ UNCHANGED <<task, inst, encoded, decodeVars, encodeVars>>

Next ==
    \/ DecodeList
    \/ DecodeGet
    \/ Call_institution
    \/ Call_request_id
    \/ Call_id
    \/ Call_name
    \/ Call_logo
    \/ Call_url
    \/ MutateReturned
    \/ SerializeMapOk
    \/ SerializeMapErr
    \/ SerializeEntryOk
    \/ SerializeEntryErr
    \/ EndOk
    \/ EndErr
    \/ EncodeInstitution
    \/ DecodeInstitution

Spec == Init /\ [][Next]_vars
(***************************************************************************)
(* Properties.                                                              *)
(***************************************************************************)
\* the wire names as the API documents them
include_optional_metadata ==
    <<"i", "n", "c", "l", "u", "d", "e", "_", "o", "p", "t", "i", "o", "n", "a", "l", "_",
      "m", "e", "t", "a", "d", "a", "t", "a">>
include_status == <<"i", "n", "c", "l", "u", "d", "e", "_", "s", "t", "a", "t", "u", "s">>

DocumentedName(option) ==
    IF option = "IncludeOptionalMetadata" THEN include_optional_metadata ELSE include_status

\* serialize_options returned Ok and the serializer took every entry
EncodedOk ==
    task = "encode" /\ pc = "return" /\ result.tag = "Ok" /\ discarded = 0

WrittenKeys == {written[i][1] : i \in 1..Len(written)}

C2_MissingInstitutionsDefaultsToEmpty ==
    (task = "list" /\ resp.tag # "Pending"
        /\ wire.institutions.k = "absent" /\ wire.request_id.k = "ok")
    => (resp.tag = "Ok" /\ resp.value.institutions = <<>>
            /\ resp.value.request_id = wire.request_id.v)

C2_Witness ==
    /\ task = "list" /\ resp.tag = "Ok"
    /\ wire.institutions.k = "absent" /\ wire.extra
    /\ Len(resp.value.institutions) = 0

\* C3: a payload without `request_id` (either response), or a
\* GetInstitutionResponse payload without `institution`, decodes to Err whatever
\* else the payload holds.
C3_MissingMandatoryTopLevelFails ==
    (task \in {"list", "get"} /\ resp.tag # "Pending")
    => /\ (wire.request_id.k = "absent" => resp.tag = "Err")
       /\ (task = "get" /\ wire.institution.k = "absent" => resp.tag = "Err")

C3_Witness ==
    /\ task = "get" /\ resp.tag = "Err"
    /\ wire.request_id.k = "absent"
    /\ wire.institution.k = "ok"
    /\ \A fld \in FieldNames : wire.institution.v[fld].k = "ok"

\* a key of a nested Institution object that the struct requires is missing,
\* null or ill-typed
MandatoryDefect(obj) == \E fld \in MandatoryFields : obj[fld].k # "ok"

TopLevelFields == IF task = "list" THEN {"institutions", "request_id"}
                  ELSE {"institution", "request_id"}

\* C4: a decode ends in Ok with every field filled or in Err, and in Err whenever
\* a mandatory field, at the top level or in a nested Institution, is missing
\* or malformed.
C4_DecodeIsAllOrNothing ==
    (task \in {"list", "get"} /\ resp.tag # "Pending")
    => /\ resp.tag \in {"Ok", "Err"}
       /\ (resp.tag = "Err" => "value" \notin DOMAIN resp)
       /\ (resp.tag = "Ok" => DOMAIN resp.value = TopLevelFields)
       /\ (wire.request_id.k # "ok" => resp.tag = "Err")
       /\ (task = "get" =>
            /\ (wire.institution.k # "ok" => resp.tag = "Err")
            /\ (wire.institution.k = "ok" /\ MandatoryDefect(wire.institution.v)
                    => resp.tag = "Err")
            /\ (resp.tag = "Ok" =>
                    /\ DOMAIN resp.value.institution = FieldNames
                    /\ \A fld \in MandatoryFields :
                           resp.value.institution[fld] = wire.institution.v[fld].v))
       /\ (task = "list" =>
            /\ (wire.institutions.k \in {"null", "bad"} => resp.tag = "Err")
            /\ (wire.institutions.k = "ok"
                    /\ (\E i \in 1..Len(wire.institutions.v) :
                            MandatoryDefect(wire.institutions.v[i]))
                    => resp.tag = "Err")
            /\ (resp.tag = "Ok" /\ wire.institutions.k = "ok" =>
                    /\ Len(resp.value.institutions) = Len(wire.institutions.v)
                    /\ \A i \in 1..Len(wire.institutions.v) :
                           DOMAIN resp.value.institutions[i] = FieldNames))

C4_Witness ==
    /\ task = "get" /\ resp.tag = "Err"
    /\ wire.request_id.k = "ok" /\ wire.institution.k = "ok"
    /\ wire.institution.v.oauth.k = "absent"
    /\ \A fld \in FieldNames \ {"oauth"} : wire.institution.v[fld].k = "ok"

AllOptionalPopulated(v) == v.url.some /\ v.primary_color.some /\ v.logo.some

\* C5: an Institution with url, primary_color and logo populated, encoded and
\* then decoded, gives Ok of an Institution equal to it in every field,
\* sequences in the same order.
C5_InstitutionRoundTrip ==
    (task = "roundtrip" /\ decoded.tag # "Pending" /\ AllOptionalPopulated(inst))
    => /\ decoded.tag = "Ok"
       /\ decoded.value = inst
       /\ \A fld \in FieldNames : decoded.value[fld] = inst[fld]

C5_Witness ==
    /\ task = "roundtrip" /\ decoded.tag = "Ok"
    /\ AllOptionalPopulated(inst)
    /\ inst.products = <<"balance", "auth">>
    /\ inst.routing_numbers = <<"021000021", "011401533">>
    /\ decoded.value.products = <<"balance", "auth">>

\* C6: after any accessor calls and any change to what they returned, the
\* response is still what the payload decoded to, the Institution handed out by
\* institution() still equals the stored one, and every value an accessor
\* returned and the caller has not changed equals the field it was read from.
C6_AccessorsReturnCopies ==
    (task = "get" /\ resp.tag = "Ok")
    => /\ resp = DeserializeGetInstitutionResponse(wire)
       /\ (instCopy.some => instCopy.v = resp.value.institution)
       /\ (held["request_id"].st = "fresh" => held["request_id"].v = resp.value.request_id)
       /\ (held["id"].st = "fresh" => held["id"].v = resp.value.institution.institution_id)
       /\ (held["name"].st = "fresh" => held["name"].v = resp.value.institution.name)
       /\ (held["logo"].st = "fresh" => held["logo"].v = resp.value.institution.logo)
       /\ (held["url"].st = "fresh" => held["url"].v = resp.value.institution.url)

C6_Witness ==
    /\ task = "get" /\ resp.tag = "Ok" /\ instCopy.some
    /\ resp.value.institution.logo.some
    /\ held["logo"].st = "mutated" /\ held["id"].st = "mutated"
    /\ held["request_id"].st = "mutated"
    /\ held["url"].st = "fresh" /\ held["name"].st = "fresh"

\* every mandatory key is there and well-typed, every optional key is there
\* with a string, there with null, or not there
WellFormed(w) ==
    /\ w.request_id.k = "ok" /\ w.institution.k = "ok"
    /\ ~MandatoryDefect(w.institution.v)
    /\ \A fld \in OptionalFields : w.institution.v[fld].k # "bad"

\* C7: a well-formed GetInstitutionResponse payload decodes to Ok, and
\* institution().id(), institution().name() and request_id() return the payload's
\* institution.institution_id, institution.name and request_id.
C7_GetAccessorsReproduceWire ==
    (task = "get" /\ resp.tag # "Pending" /\ WellFormed(wire))
    => /\ resp.tag = "Ok"
       /\ (held["id"].st = "fresh" => held["id"].v = wire.institution.v.institution_id.v)
       /\ (held["name"].st = "fresh" => held["name"].v = wire.institution.v.name.v)
       /\ (held["request_id"].st = "fresh" => held["request_id"].v = wire.request_id.v)

\* the payload of the example: url, primary_color and logo null
C7_Witness ==
    /\ task = "get" /\ WellFormed(wire)
    /\ \A fld \in OptionalFields : wire.institution.v[fld].k = "null"
    /\ held["id"].st = "fresh" /\ held["id"].v = "ins_1"
    /\ held["name"].st = "fresh" /\ held["name"].v = "Bank A"
    /\ held["request_id"].st = "fresh" /\ held["request_id"].v = "req_1"

\* the nested Institution objects of the payload that the decoder reads
NestedObjects ==
    IF task = "get"
    THEN (IF wire.institution.k = "ok" THEN {wire.institution.v} ELSE {})
    ELSE (IF wire.institutions.k = "ok"
          THEN {wire.institutions.v[i] : i \in 1..Len(wire.institutions.v)}
          ELSE {})

\* C8: in a nested Institution, url, primary_color and logo decode to None when
\* the key holds null and when it is absent, and neither fails the decode;
\* a missing institution_id, name, products, country_codes, routing_numbers or
\* oauth fails the decode of the enclosing response.
C8_OptionalVersusMandatoryKeys ==
    (task \in {"list", "get"} /\ resp.tag # "Pending")
    => /\ \A obj \in NestedObjects : \A fld \in MandatoryFields :
               obj[fld].k = "absent" => resp.tag = "Err"
       /\ (task = "get" /\ WellFormed(wire) =>
               /\ resp.tag = "Ok"
               /\ \A fld \in OptionalFields :
                      /\ (wire.institution.v[fld].k \in {"null", "absent"}
                              => resp.value.institution[fld] = None)
                      /\ (wire.institution.v[fld].k = "ok"
                              => resp.value.institution[fld] = Some(wire.institution.v[fld].v)))
       /\ (task = "list" /\ wire.request_id.k = "ok" /\ wire.institutions.k = "ok"
                /\ (\A obj \in NestedObjects :
                        ~MandatoryDefect(obj) /\ \A fld \in OptionalFields : obj[fld].k # "bad")
            => /\ resp.tag = "Ok"
               /\ \A i \in 1..Len(wire.institutions.v) : \A fld \in OptionalFields :
                      wire.institutions.v[i][fld].k \in {"null", "absent"}
                          => resp.value.institutions[i][fld] = None)

C8_Witness ==
    /\ task = "get" /\ resp.tag = "Ok"
    /\ wire.institution.v.url.k = "absent"
    /\ wire.institution.v.logo.k = "null"
    /\ wire.institution.v.primary_color.k = "ok"
    /\ resp.value.institution.url = None
    /\ resp.value.institution.logo = None
    /\ resp.value.institution.primary_color.some

\* the map was opened: serialize_map returned Ok
Opened == task = "encode" /\ pc # "serialize_map"
            /\ ~(result.tag = "Err" /\ result.at = "serialize_map")

\* C9: once the map is open its declared length is the length of the sequence;
\* the entries handed to the serializer are one per element read so far, in the
\* order of the sequence, and one per element of the whole sequence when the
\* function returns; nothing is de-duplicated, so unless the serializer refuses
\* an entry the map holds as many entries as the sequence has elements.
C9_OneEntryPerElement ==
    Opened
    => /\ declared = Len(x)
       /\ Len(calls) <= Len(x)
       /\ \A i \in 1..Len(calls) : calls[i] = <<DocumentedName(x[i]), TRUE>>
       /\ (pc = "return" => Len(calls) = Len(x))
       /\ (discarded = 0 => written = calls)

C9_Witness ==
    /\ Opened /\ pc = "return" /\ result.tag = "Ok"
    /\ x = <<"IncludeStatus", "IncludeStatus">>
    /\ declared = 2
    /\ written = << <<include_status, TRUE>>, <<include_status, TRUE>> >>

\* C10: serialize_options returns Err only for a failed serialize_map or a
\* failed end; after a refused entry the loop still hands over every remaining
\* element and the result is the result of end, which can be Ok although an
\* entry is missing from the map.
C10_EntryErrorsAreDiscarded ==
    (task = "encode")
    => /\ (result.tag = "Err" => result.at \in {"serialize_map", "end"})
       /\ (discarded > 0 /\ pc = "return" => result.at = "end" /\ Len(calls) = Len(x))
       /\ Len(written) + discarded = Len(calls)
       /\ (pc = "return" <=> result.tag # "Pending")

C10_Witness ==
    /\ task = "encode" /\ pc = "return" /\ result.tag = "Ok"
    /\ x = <<"IncludeOptionalMetadata", "IncludeStatus">>
    /\ discarded = 1
    /\ written = << <<include_status, TRUE>> >>
====
